---- MODULE Spec2Model ----
(***************************************************************************)
(* Model of totalsegmentator/dicom_io.py: the series loader                *)
(* (load_dicom_series), the geometry transform (np.rot90, np.transpose,    *)
(* [::-1]) and the two DICOM SEG writers (save_mask_as_dicomseg,           *)
(* save_mask_as_dicomseg_PYDICOM).                                         *)
(*                                                                         *)
(* Python strings are sequences of one-character strings, numpy arrays are *)
(* records [shape, v] with v a function on 0-based index tuples, and a     *)
(* dict is the sequence of its (key, value) pairs in insertion order.      *)
(***************************************************************************)
EXTENDS Integers, Sequences, FiniteSets, TLC

\* ------------------------------------------------------------------ bounds
MaxFiles == 3        \* files found by os.walk in the reference directory
MaxVoxels == 6       \* voxels of a label volume in the geometry runs
MaxSegVoxels == 3    \* voxels of a label volume in the writer runs
MaxClasses == 3      \* entries of selected_classes
MaxTurns == 5        \* quarter turns applied in the geometry runs

\* ------------------------------------------------------------ Python values
Lowercase ==
    {"a","b","c","d","e","f","g","h","i","j","k","l","m",
     "n","o","p","q","r","s","t","u","v","w","x","y","z"}

\* str.islower() of a one-character string
islower(ch) == ch \in Lowercase

Digits == <<"0","1","2","3","4","5","6","7","8","9">>

DigitValue(ch) == CHOOSE d \in 0..9 : Digits[d + 1] = ch

IsDigit(ch) == \E d \in 0..9 : Digits[d + 1] = ch

\* int(x) succeeds on a non-empty string of decimal digits
IntConvertible(s) ==
    /\ Len(s) > 0
    /\ \A i \in 1..Len(s) : IsDigit(s[i])

RECURSIVE IntOf(_)
IntOf(s) ==
    IF Len(s) = 0 THEN 0
    ELSE 10 * IntOf(SubSeq(s, 1, Len(s) - 1)) + DigitValue(s[Len(s)])

\* ------------------------------------------------------- load_dicom_series
supported_modalities ==
    <<"CT Image Storage",
      "MR Image Storage",
      "Positron Emission Tomography Image Storage",
      "Nuclear Medicine Image Storage">>

InList(x, list) == \E i \in 1..Len(list) : list[i] = x

\* What a file of the directory holds: readable is FALSE when pydicom.dcmread
\* raises; attrs are the attributes the dataset has; SOPClassUID is the name
\* of the SOP class and InstanceNumber the stored string.  Rows and Columns
\* are the extents of the slice; SeriesDescription and SeriesNumber are
\* optional, and where the attribute is missing the field holds a value no
\* code path may read.
NoDescription == <<"?">>

NoNumber == 0 - 1

UnreadableFile ==
    [readable |-> FALSE, attrs |-> {}, SOPClassUID |-> "", InstanceNumber |-> <<>>,
     Rows |-> 0, Columns |-> 0,
     SeriesDescription |-> NoDescription, SeriesNumber |-> NoNumber]

DicomFile(sop, inst) ==
    [readable |-> TRUE,
     attrs |-> {"SOPClassUID", "InstanceNumber", "Rows", "Columns"},
     SOPClassUID |-> sop, InstanceNumber |-> inst,
     Rows |-> 1, Columns |-> 1,
     SeriesDescription |-> NoDescription, SeriesNumber |-> NoNumber]

Without(f, attr) ==
    [f EXCEPT !.attrs = @ \ {attr},
              !.SOPClassUID = IF attr = "SOPClassUID" THEN "" ELSE @,
              !.InstanceNumber = IF attr = "InstanceNumber" THEN <<>> ELSE @,
              !.SeriesDescription =
                  IF attr = "SeriesDescription" THEN NoDescription ELSE @,
              !.SeriesNumber = IF attr = "SeriesNumber" THEN NoNumber ELSE @]

\* The file f as a slice of a series with this description and number
InSeries(f, description, number) ==
    [f EXCEPT !.attrs = @ \cup {"SeriesDescription", "SeriesNumber"},
              !.SeriesDescription = description,
              !.SeriesNumber = number]

hasattr(dcm, attr) == attr \in dcm.attrs

CT(n) == DicomFile("CT Image Storage", n)

InstanceStrings == {<<"1">>, <<"2">>, <<"3">>, <<"1","0">>}

FileContents ==
    {UnreadableFile}
    \cup {CT(n) : n \in InstanceStrings \cup {<<"x">>}}
    \cup {Without(CT(<<"1">>), "InstanceNumber"),
          Without(CT(<<"1">>), "SOPClassUID")}
    \cup {DicomFile(s, <<"2">>) :
            s \in {"MR Image Storage",
                   "Positron Emission Tomography Image Storage",
                   "Nuclear Medicine Image Storage"}}
    \cup {DicomFile("RT Structure Set Storage", <<"1">>)}

SeqsUpTo(S, n) == UNION {[1..k -> S] : k \in 0..n}

\* A directory is the sequence of its files in os.walk order.
Directories == SeqsUpTo(FileContents, MaxFiles)

\* The dataset pydicom.dcmread returns for the file at position p.
dcmread(dir, p) ==
    [path |-> p,
     attrs |-> dir[p].attrs,
     SOPClassUID |-> dir[p].SOPClassUID,
     InstanceNumber |-> dir[p].InstanceNumber,
     Rows |-> dir[p].Rows,
     Columns |-> dir[p].Columns,
     SeriesDescription |-> dir[p].SeriesDescription,
     SeriesNumber |-> dir[p].SeriesNumber]

\* KeepsFile that also passes over a dataset whose InstanceNumber is missing
\* or is no integer
KeepsFile_WithSortKeyOnly(f) ==
    /\ f.readable
    /\ hasattr(f, "SOPClassUID")
    /\ InList(f.SOPClassUID, supported_modalities)
    /\ hasattr(f, "InstanceNumber")
    /\ IntConvertible(f.InstanceNumber)

\* KeepsFile without the SOP class test
KeepsFile_AnyDataset(f) == f.readable

\* The body of the try block: the file is appended when it reads and its SOP
\* class name is in supported_modalities; anything else leaves the list alone.
KeepsFile(f) ==
    /\ f.readable
    /\ hasattr(f, "SOPClassUID")
    /\ InList(f.SOPClassUID, supported_modalities)

RECURSIVE ScanFiles(_, _)
ScanFiles(dir, p) ==
    IF p > Len(dir) THEN <<>>
    ELSE IF KeepsFile(dir[p])
         THEN <<dcmread(dir, p)>> \o ScanFiles(dir, p + 1)
         ELSE ScanFiles(dir, p + 1)

\* key=lambda x: int(x.InstanceNumber)
SortKey(dcm) == IntOf(dcm.InstanceNumber)

\* x.InstanceNumber raises when the attribute is missing, int() when the
\* string is no integer
SortKeyRaises(dcm) ==
    \/ ~hasattr(dcm, "InstanceNumber")
    \/ ~IntConvertible(dcm.InstanceNumber)

\* InsertByKey that puts an element before the elements of equal key
RECURSIVE InsertByKey_BeforeEqual(_, _)
InsertByKey_BeforeEqual(sorted, dcm) ==
    IF Len(sorted) = 0 THEN <<dcm>>
    ELSE IF SortKey(sorted[Len(sorted)]) < SortKey(dcm)
         THEN Append(sorted, dcm)
         ELSE Append(InsertByKey_BeforeEqual(SubSeq(sorted, 1, Len(sorted) - 1), dcm),
                     sorted[Len(sorted)])

\* list.sort is stable: an element goes after every element whose key is not
\* larger than its own.
RECURSIVE InsertByKey(_, _)
InsertByKey(sorted, dcm) ==
    IF Len(sorted) = 0 THEN <<dcm>>
    ELSE IF SortKey(sorted[Len(sorted)]) <= SortKey(dcm)
         THEN Append(sorted, dcm)
         ELSE Append(InsertByKey(SubSeq(sorted, 1, Len(sorted) - 1), dcm),
                     sorted[Len(sorted)])

RECURSIVE SortByInstanceNumber(_)
SortByInstanceNumber(list) ==
    IF Len(list) = 0 THEN <<>>
    ELSE InsertByKey(SortByInstanceNumber(SubSeq(list, 1, Len(list) - 1)),
                     list[Len(list)])

NoSeriesMessage == "No supported DICOM files found. Supported modalities: CT, MR, PET, SPECT"

\* load_dicom_series without its check of an empty list
load_dicom_series_NoEmptyCheck(dir) ==
    LET dicom_files == ScanFiles(dir, 1) IN
    IF \E i \in 1..Len(dicom_files) : SortKeyRaises(dicom_files[i])
    THEN [raised |-> "InstanceNumber is missing or not an integer", value |-> <<>>]
    ELSE [raised |-> "none", value |-> SortByInstanceNumber(dicom_files)]

\* The outcome of load_dicom_series(dir): the exception it raises, or "none"
\* and the list it returns.
load_dicom_series(dir) ==
    LET dicom_files == ScanFiles(dir, 1) IN
    IF Len(dicom_files) = 0
    THEN [raised |-> NoSeriesMessage, value |-> <<>>]
    ELSE IF \E i \in 1..Len(dicom_files) : SortKeyRaises(dicom_files[i])
    THEN [raised |-> "InstanceNumber is missing or not an integer", value |-> <<>>]
    ELSE [raised |-> "none", value |-> SortByInstanceNumber(dicom_files)]

\* ------------------------------------------------------------------- numpy
\* An array of three axes: shape is its extents, v maps a 0-based index to the
\* element there.
Indices(shape) ==
    (0..(shape[1] - 1)) \X (0..(shape[2] - 1)) \X (0..(shape[3] - 1))

Shapes(n) ==
    {s \in (1..n) \X (1..n) \X (1..n) : s[1] * s[2] * s[3] <= n}

Arrays(n, values) ==
    UNION {{[shape |-> s, v |-> f] : f \in [Indices(s) -> values]} :
             s \in Shapes(n)}

\* np.flip(m, axis), also m[::-1, :, :] for axis 1: the order of the elements
\* along the axis is reversed.
flip(m, axis) ==
    [shape |-> m.shape,
     v |-> [i \in Indices(m.shape) |->
              m.v[[i EXCEPT ![axis] = m.shape[axis] - 1 - i[axis]]]]]

\* np.transpose(m, axes): axis k of the result is axis axes[k] of m.
transpose(m, axes) ==
    LET shape == [k \in 1..3 |-> m.shape[axes[k]]] IN
    [shape |-> shape,
     v |-> [i \in Indices(shape) |->
              m.v[[a \in 1..3 |-> i[CHOOSE k \in 1..3 : axes[k] = a]]]]]

\* rot90 whose axes_list moves the slice axis to the front as well
rot90_SliceAxisFirst(m) == transpose(flip(m, 2), <<3, 1, 2>>)

\* np.rot90(m, 1, (0, 1)): for k = 1 numpy returns
\* transpose(flip(m, axes[1]), axes_list) with the two axes swapped in
\* axes_list.  Axes are numbered from 1 here.
rot90(m) == transpose(flip(m, 2), <<2, 1, 3>>)

\* (m == class_idx).sum()
CountEqual(m, class_idx) ==
    Cardinality({i \in Indices(m.shape) : m.v[i] = class_idx})

\* ToFrames without the reversal of the frame axis
ToFrames_NoFlip(img_rotated) == transpose(img_rotated, <<3, 1, 2>>)

\* np.transpose(img_data_rotated, (2, 0, 1)) followed by [::-1, :, :]
ToFrames(img_rotated) == flip(transpose(img_rotated, <<3, 1, 2>>), 1)

\* --------------------------------------------------- segment catalog builder
\* DictSet that puts a new key first
DictSet_NewKeyFirst(d, key, value) ==
    IF \E i \in 1..Len(d) : d[i][1] = key
    THEN [i \in 1..Len(d) |-> IF d[i][1] = key THEN <<key, value>> ELSE d[i]]
    ELSE <<<<key, value>>>> \o d

\* present_segments[class_idx] = class_name on a dict held as its item list
DictSet(d, key, value) ==
    IF \E i \in 1..Len(d) : d[i][1] = key
    THEN [i \in 1..Len(d) |-> IF d[i][1] = key THEN <<key, value>> ELSE d[i]]
    ELSE Append(d, <<key, value>>)

\* FirstPass without the test of the name's first character
RECURSIVE FirstPass_NoNameFilter(_, _, _)
FirstPass_NoNameFilter(classes, img_rotated, n) ==
    IF n = 0 THEN <<>>
    ELSE LET present == FirstPass_NoNameFilter(classes, img_rotated, n - 1)
             class_idx == classes[n][1]
             class_name == classes[n][2]
         IN  IF class_idx = 0 THEN present
             ELSE IF CountEqual(img_rotated, class_idx) > 0
                  THEN DictSet(present, class_idx, class_name)
                  ELSE present

\* FirstPass without the skip of label 0
RECURSIVE FirstPass_NoBackgroundSkip(_, _, _)
FirstPass_NoBackgroundSkip(classes, img_rotated, n) ==
    IF n = 0 THEN <<>>
    ELSE LET present == FirstPass_NoBackgroundSkip(classes, img_rotated, n - 1)
             class_idx == classes[n][1]
             class_name == classes[n][2]
         IN  IF islower(class_name[1]) THEN present
             ELSE IF CountEqual(img_rotated, class_idx) > 0
                  THEN DictSet(present, class_idx, class_name)
                  ELSE present

\* First pass over the first n items of selected_classes: present_segments
\* when the loop has handled them.
RECURSIVE FirstPass(_, _, _)
FirstPass(classes, img_rotated, n) ==
    IF n = 0 THEN <<>>
    ELSE LET present == FirstPass(classes, img_rotated, n - 1)
             class_idx == classes[n][1]
             class_name == classes[n][2]
         IN  IF class_idx = 0 THEN present
             ELSE IF islower(class_name[1]) THEN present
             ELSE IF CountEqual(img_rotated, class_idx) > 0
                  THEN DictSet(present, class_idx, class_name)
                  ELSE present

\* The property type code of a segment: codes.cid7166.ConnectiveTissue with
\* highdicom, a code whose meaning is the class name with pydicom.
PropertyType(fn, class_name) ==
    IF fn = "save_mask_as_dicomseg" THEN <<"ConnectiveTissue">> ELSE class_name

\* SecondPass that numbers a segment with its label
SecondPass_LabelAsNumber(fn, present) ==
    [k \in 1..Len(present) |->
        [segment_number |-> present[k][1],
         segment_label |-> present[k][2],
         property_category |-> "Tissue",
         property_type |-> PropertyType(fn, present[k][2])]]

\* Second pass: enumerate(present_segments.items(), start=1)
SecondPass(fn, present) ==
    [k \in 1..Len(present) |->
        [segment_number |-> k,
         segment_label |-> present[k][2],
         property_category |-> "Tissue",
         property_type |-> PropertyType(fn, present[k][2])]]

NoSegmentsMessage == "No non-empty segments found in the segmentation data"

\* --------------------------------------------------------------- pixel data
NoArray == [shape |-> <<0, 0, 0>>, v |-> <<>>]

\* BinaryMask that marks every voxel with a label other than 0
BinaryMask_AnyForeground(frames, class_idx) ==
    [shape |-> frames.shape,
     v |-> [i \in Indices(frames.shape) |->
              IF frames.v[i] # 0 THEN 1 ELSE 0]]

\* mask = np.zeros(shape); mask[frames == class_idx] = 1
BinaryMask(frames, class_idx) ==
    [shape |-> frames.shape,
     v |-> [i \in Indices(frames.shape) |->
              IF frames.v[i] = class_idx THEN 1 ELSE 0]]

\* binary_seg_array of save_mask_as_dicomseg: zeros of shape
\* (rotated.shape[2], rotated.shape[0], rotated.shape[1], num_segments) whose
\* channel i is set to the mask of the i-th present segment.
BinarySegArray(img_rotated, frames, present) ==
    LET shape == <<img_rotated.shape[3], img_rotated.shape[1],
                   img_rotated.shape[2], Len(present)>>
    IN  [shape |-> shape,
         v |-> [i \in Indices(shape) \X (0..(Len(present) - 1)) |->
                  BinaryMask(frames, present[i[2] + 1][1]).v[i[1]]]]

\* CombinedMask that stores the label of the class, not the position of the
\* segment
CombinedMask_LabelAsValue(frames, present, n) ==
    [shape |-> frames.shape,
     v |-> [i \in Indices(frames.shape) |->
              IF \E k \in 1..n : present[k][1] = frames.v[i]
              THEN frames.v[i] ELSE 0]]

\* combined_mask of save_mask_as_dicomseg_PYDICOM after the first n masks:
\* combined_mask[mask == 1] = i for i = 1..n, in that order.
RECURSIVE CombinedMask(_, _, _)
CombinedMask(frames, present, n) ==
    IF n = 0
    THEN [shape |-> frames.shape, v |-> [i \in Indices(frames.shape) |-> 0]]
    ELSE LET before == CombinedMask(frames, present, n - 1)
             mask == BinaryMask(frames, present[n][1])
         IN  [shape |-> frames.shape,
              v |-> [i \in Indices(frames.shape) |->
                       IF mask.v[i] = 1 THEN n ELSE before.v[i]]]

\* ---------------------------------------------------------- series metadata
\* ref_image that is the last slice of the list
ref_image_LastSlice(series) == series[Len(series)]

\* ref_image = dicom_series[0]
ref_image(series) == series[1]

\* original_series_description = "", replaced when the attribute is there
OriginalSeriesDescription(ref) ==
    IF hasattr(ref, "SeriesDescription") THEN ref.SeriesDescription ELSE <<>>

\* original_series_number = 0, replaced when the attribute is there
OriginalSeriesNumber(ref) ==
    IF hasattr(ref, "SeriesNumber") THEN ref.SeriesNumber ELSE 0

\* f"{original_series_description} Seg"
WithSegSuffix(description) == description \o <<" ", "S", "e", "g">>

\* new_series_number = original_series_number + 1000
SeriesNumberOffset == 1000

\* ------------------------------------------------- create_dicom_segmentation
\* np.unique(segmentation_array)
unique(m) == {m.v[i] : i \in Indices(m.shape)}

\* The loop over class_dict.items(): label 0 is passed over, and a label that
\* is in the array gets a description whose segment_number is the label.
RECURSIVE CreateSegmentDescriptions(_, _, _)
CreateSegmentDescriptions(class_dict, segmentation_array, n) ==
    IF n = 0 THEN <<>>
    ELSE LET before == CreateSegmentDescriptions(class_dict, segmentation_array, n - 1)
             segment_number == class_dict[n][1]
             segment_name == class_dict[n][2]
         IN  IF segment_number = 0 THEN before
             ELSE IF segment_number \in unique(segmentation_array)
                  THEN Append(before,
                              [segment_number |-> segment_number,
                               segment_label |-> segment_name,
                               property_category |-> "Tissue",
                               property_type |-> "Tissue"])
                  ELSE before

\* ------------------------------------------------------- save_mask_as_rtstruct
\* The loop over selected_classes.items(): a class whose name starts with a
\* lowercase letter is passed over, and a class with a voxel of its label is
\* added as a ROI of that mask and name.  Label 0 is treated as any other.
RECURSIVE AddRois(_, _, _)
AddRois(classes, img_rotated, n) ==
    IF n = 0 THEN <<>>
    ELSE LET added == AddRois(classes, img_rotated, n - 1)
             class_idx == classes[n][1]
             class_name == classes[n][2]
         IN  IF islower(class_name[1]) THEN added
             ELSE IF CountEqual(img_rotated, class_idx) > 0
                  THEN Append(added, [name |-> class_name,
                                      mask |-> BinaryMask(img_rotated, class_idx)])
                  ELSE added

\* ------------------------------------------------------------------- inputs
Name_Liver == <<"L","i","v","e","r">>
Name_background == <<"b","a","c","k","g","r","o","u","n","d">>
Name_spleen_internal ==
    <<"s","p","l","e","e","n","_","i","n","t","e","r","n","a","l">>
Name_7th_rib == <<"7","t","h","_","r","i","b">>

Labels == {0, 1, 5}

\* The items a dict of classes is made of.  Label 0 is the background, under
\* that name or under a capitalised one; the other labels have a name that
\* starts with an uppercase letter, a lowercase letter or a digit.
ClassItems ==
    ({0} \X {Name_background, Name_Liver})
    \cup ((Labels \ {0}) \X {Name_Liver, Name_spleen_internal, Name_7th_rib})

\* selected_classes: a dict, so no label is a key twice
ClassDicts ==
    {d \in SeqsUpTo(ClassItems, MaxClasses) :
        \A i, j \in 1..Len(d) : i # j => d[i][1] # d[j][1]}

SegVolumes == Arrays(MaxSegVoxels, Labels)

GeometryVolumes == Arrays(MaxVoxels, Labels)

\* Reference directories of the writer runs: two slices out of order beside a
\* file that does not read, a slice without InstanceNumber, and every
\* directory none of whose files is a supported image.
SeriesDirectory == <<CT(<<"2">>), UnreadableFile, CT(<<"1">>)>>

ReferenceDirectories ==
    {SeriesDirectory, <<Without(CT(<<"1">>), "InstanceNumber")>>}
    \cup SeqsUpTo({UnreadableFile,
                   DicomFile("RT Structure Set Storage", <<"1">>),
                   Without(CT(<<"1">>), "SOPClassUID")}, MaxFiles)

Writers == {"save_mask_as_dicomseg", "save_mask_as_dicomseg_PYDICOM"}

\* -------------------------------------------------------------------- state
VARIABLES
    func,                        \* the function that was called
    pc,                          \* where its execution stands
    dcm_reference_file,          \* the files of the directory it is given
    img_data,                    \* the label volume it is given
    selected_classes,            \* the label -> name dict it is given
    output_file,                 \* what the file at output_path holds
    output_file_at_call,         \* what it held when the function was called
    dicom_series,                \* the list load_dicom_series returned
    img_data_rotated,
    turns,                       \* quarter turns img_data_rotated has had
    present_segments,
    segment_descriptions,        \* segment_sequence in the pydicom writer
    img_data_rotated_transposed,
    pixel_array,                 \* binary_seg_array or combined_mask
    rois,                        \* the ROIs added to the RT Struct
    raised                       \* the exception that left the function

vars ==
    <<func, pc, dcm_reference_file, img_data, selected_classes, output_file,
      output_file_at_call, dicom_series, img_data_rotated, turns, present_segments,
      segment_descriptions, img_data_rotated_transposed, pixel_array, rois,
      raised>>

inputs ==
    <<func, dcm_reference_file, img_data, selected_classes, output_file_at_call>>

\* What the file at output_path can hold: nothing, what an earlier run left
\* there, the start of a dataset whose write did not finish, or (SaveAs) a
\* whole dataset.
Absent == [exists |-> FALSE]

EarlierFile == [exists |-> TRUE, content |-> "earlier"]

TruncatedFile == [exists |-> TRUE, content |-> "truncated"]

NoPixels == [shape |-> <<0, 0, 0, 0>>, v |-> <<>>]

Locals ==
    /\ dicom_series = <<>>
    /\ img_data_rotated = NoArray
    /\ turns = 0
    /\ present_segments = <<>>
    /\ segment_descriptions = <<>>
    /\ img_data_rotated_transposed = NoArray
    /\ pixel_array = NoPixels
    /\ rois = <<>>
    /\ raised = "none"

\* ----------------------------------------------------- the series loader run
InitLoad ==
    /\ func = "load_dicom_series"
    /\ pc = "load"
    /\ dcm_reference_file \in Directories
    /\ img_data = NoArray
    /\ selected_classes = <<>>
    /\ output_file = Absent
    /\ output_file_at_call = Absent
    /\ Locals

LoaderReturns ==
    /\ func = "load_dicom_series"
    /\ pc = "load"
    /\ load_dicom_series(dcm_reference_file).raised = "none"
    /\ dicom_series' = load_dicom_series(dcm_reference_file).value
    /\ pc' = "returned"
    /\ UNCHANGED <<inputs, rois, output_file, img_data_rotated, turns,
                   present_segments, segment_descriptions,
                   img_data_rotated_transposed, pixel_array, raised>>

LoaderRaises ==
    /\ func = "load_dicom_series"
    /\ pc = "load"
    /\ load_dicom_series(dcm_reference_file).raised # "none"
    /\ raised' = load_dicom_series(dcm_reference_file).raised
    /\ pc' = "raised"
    /\ UNCHANGED <<inputs, rois, output_file, dicom_series, img_data_rotated, turns,
                   present_segments, segment_descriptions,
                   img_data_rotated_transposed, pixel_array>>

NextLoad == LoaderReturns \/ LoaderRaises

SpecLoad == InitLoad /\ [][NextLoad]_vars

\* --------------------------------------------------- the geometry transform
InitGeometry ==
    /\ func = "geometry"
    /\ pc = "rotate"
    /\ dcm_reference_file = <<>>
    /\ img_data \in GeometryVolumes
    /\ selected_classes = <<>>
    /\ output_file = Absent
    /\ output_file_at_call = Absent
    /\ dicom_series = <<>>
    /\ img_data_rotated = img_data
    /\ turns = 0
    /\ present_segments = <<>>
    /\ segment_descriptions = <<>>
    /\ img_data_rotated_transposed = NoArray
    /\ pixel_array = NoPixels
    /\ rois = <<>>
    /\ raised = "none"

\* One more np.rot90(..., 1, (0, 1)) of the volume
QuarterTurn ==
    /\ func = "geometry"
    /\ pc = "rotate"
    /\ turns < MaxTurns
    /\ img_data_rotated' = rot90(img_data_rotated)
    /\ turns' = turns + 1
    /\ UNCHANGED <<inputs, rois, pc, output_file, dicom_series, present_segments,
                   segment_descriptions, img_data_rotated_transposed,
                   pixel_array, raised>>

\* The writers' transpose and flip of the volume they rotated once
TransposeAndFlip ==
    /\ func = "geometry"
    /\ pc = "rotate"
    /\ turns = 1
    /\ img_data_rotated_transposed' = ToFrames(img_data_rotated)
    /\ pc' = "frames"
    /\ UNCHANGED <<inputs, rois, output_file, dicom_series, img_data_rotated, turns,
                   present_segments, segment_descriptions, pixel_array, raised>>

NextGeometry == QuarterTurn \/ TransposeAndFlip

SpecGeometry == InitGeometry /\ [][NextGeometry]_vars

\* ------------------------------------------------------------ the two writers
\* A writer reads img_data and selected_classes only once the series is
\* loaded: the runs on a directory that gives no series take them from the
\* one-voxel volumes and the dicts of at most one class.  So do the runs that
\* find a file of an earlier run at output_path.
Init ==
    /\ func \in Writers
    /\ pc = "load"
    /\ \/ /\ dcm_reference_file = SeriesDirectory
          /\ img_data \in SegVolumes
          /\ selected_classes \in ClassDicts
          /\ output_file = Absent
       \/ /\ dcm_reference_file \in ReferenceDirectories \ {SeriesDirectory}
          /\ img_data \in Arrays(1, Labels)
          /\ selected_classes \in SeqsUpTo(ClassItems, 1)
          /\ output_file \in {Absent, EarlierFile}
       \/ /\ dcm_reference_file = SeriesDirectory
          /\ img_data \in Arrays(1, Labels)
          /\ selected_classes \in SeqsUpTo(ClassItems, 1)
          /\ output_file = EarlierFile
    /\ output_file_at_call = output_file
    /\ Locals

NoFilesMessage == "No DICOM files found in the reference directory"

\* dicom_series = load_dicom_series(dcm_reference_file), and the writer's own
\* check of an empty list
LoadSeries ==
    /\ func \in Writers
    /\ pc = "load"
    /\ load_dicom_series(dcm_reference_file).raised = "none"
    /\ dicom_series' = load_dicom_series(dcm_reference_file).value
    /\ IF Len(dicom_series') = 0
       THEN raised' = NoFilesMessage /\ pc' = "raised"
       ELSE raised' = raised /\ pc' = "first_pass"
    /\ UNCHANGED <<inputs, rois, output_file, img_data_rotated, turns,
                   present_segments, segment_descriptions,
                   img_data_rotated_transposed, pixel_array>>

\* load_dicom_series raises: the except block prints and raises again
LoadSeriesRaises ==
    /\ func \in Writers
    /\ pc = "load"
    /\ load_dicom_series(dcm_reference_file).raised # "none"
    /\ raised' = load_dicom_series(dcm_reference_file).raised
    /\ pc' = "raised"
    /\ UNCHANGED <<inputs, rois, output_file, dicom_series, img_data_rotated, turns,
                   present_segments, segment_descriptions,
                   img_data_rotated_transposed, pixel_array>>

\* np.rot90 and the first pass over selected_classes.  The pydicom writer
\* raises here when present_segments is empty.
RotateAndFirstPass ==
    /\ func \in Writers
    /\ pc = "first_pass"
    /\ LET rotated == rot90(img_data)
           present == FirstPass(selected_classes, rotated, Len(selected_classes))
       IN  /\ img_data_rotated' = rotated
           /\ turns' = 1
           /\ present_segments' = present
           /\ IF func = "save_mask_as_dicomseg_PYDICOM" /\ Len(present) = 0
              THEN raised' = NoSegmentsMessage /\ pc' = "raised"
              ELSE raised' = raised /\ pc' = "second_pass"
    /\ UNCHANGED <<inputs, rois, output_file, dicom_series, segment_descriptions,
                   img_data_rotated_transposed, pixel_array>>

\* DescribeSegments without the check of num_segments
DescribeSegments_NoEmptyCheck ==
    /\ func \in Writers
    /\ pc = "second_pass"
    /\ segment_descriptions' = SecondPass(func, present_segments)
    /\ pc' = "pixels"
    /\ UNCHANGED <<inputs, rois, output_file, dicom_series, img_data_rotated, turns,
                   present_segments, img_data_rotated_transposed, pixel_array,
                   raised>>

\* The segment descriptions of the present segments.  The highdicom writer
\* raises here when there is none.
DescribeSegments ==
    /\ func \in Writers
    /\ pc = "second_pass"
    /\ segment_descriptions' = SecondPass(func, present_segments)
    /\ IF func = "save_mask_as_dicomseg" /\ Len(segment_descriptions') = 0
       THEN raised' = NoSegmentsMessage /\ pc' = "raised"
       ELSE raised' = raised /\ pc' = "pixels"
    /\ UNCHANGED <<inputs, rois, output_file, dicom_series, img_data_rotated, turns,
                   present_segments, img_data_rotated_transposed, pixel_array>>

\* Transpose, flip and the masks of the present segments.  combined_mask is
\* held with a last axis of extent 1.
FillPixels ==
    /\ func \in Writers
    /\ pc = "pixels"
    /\ LET frames == ToFrames(img_data_rotated)
       IN  /\ img_data_rotated_transposed' = frames
           /\ pixel_array' =
                IF func = "save_mask_as_dicomseg"
                THEN BinarySegArray(img_data_rotated, frames, present_segments)
                ELSE LET m == CombinedMask(frames, present_segments,
                                           Len(present_segments))
                     IN  [shape |-> m.shape \o <<1>>,
                          v |-> [i \in Indices(m.shape) \X {0} |-> m.v[i[1]]]]
    /\ pc' = "save"
    /\ UNCHANGED <<inputs, rois, output_file, dicom_series, img_data_rotated, turns,
                   present_segments, segment_descriptions, raised>>

\* The extents of a pixel array (frames, rows, columns) against the series:
\* one frame per slice, and the rows and columns of a slice.  Neither writer
\* computes this.
ExtentsDisagree(shape, series) ==
    \/ shape[1] # Len(series)
    \/ shape[2] # series[1].Rows
    \/ shape[3] # series[1].Columns

LibraryRejectsMessage == "hd.seg.Segmentation raised"

\* hd.seg.Segmentation(source_images=dicom_series, pixel_array=...) is library
\* code outside the repository.  Given a pixel array whose extents disagree
\* with the source images it may raise, which the except block prints and
\* raises again, or build the dataset: both outcomes are kept.
SegmentationRejects ==
    /\ func = "save_mask_as_dicomseg"
    /\ pc = "save"
    /\ ExtentsDisagree(pixel_array.shape, dicom_series)
    /\ raised' = LibraryRejectsMessage
    /\ pc' = "raised"
    /\ UNCHANGED <<inputs, rois, output_file, dicom_series, img_data_rotated, turns,
                   present_segments, segment_descriptions,
                   img_data_rotated_transposed, pixel_array>>

SaveFailsMessage == "save_as raised"

\* seg_dataset.save_as(output_path) raises.  It writes to output_path itself:
\* when it fails before the file is opened the path is as it was, and when it
\* fails later the path holds what was written so far.  The except block
\* prints and raises again and removes nothing.
SaveAsFails ==
    /\ func \in Writers
    /\ pc = "save"
    /\ \E left \in {output_file, TruncatedFile} : output_file' = left
    /\ raised' = SaveFailsMessage
    /\ pc' = "raised"
    /\ UNCHANGED <<inputs, rois, dicom_series, img_data_rotated, turns,
                   present_segments, segment_descriptions,
                   img_data_rotated_transposed, pixel_array>>

\* seg_dataset.save_as(output_path)
SaveAs ==
    /\ func \in Writers
    /\ pc = "save"
    /\ output_file' =
         [exists |-> TRUE,
          SegmentSequence |-> segment_descriptions,
          NumberOfFrames |-> pixel_array.shape[1],
          Rows |-> pixel_array.shape[2],
          Columns |-> pixel_array.shape[3],
          PixelData |-> pixel_array.v,
          SeriesDescription |->
              WithSegSuffix(OriginalSeriesDescription(ref_image(dicom_series))),
          SeriesNumber |-> OriginalSeriesNumber(ref_image(dicom_series)),
          InstanceNumber |-> 1]
    /\ pc' = "returned"
    /\ UNCHANGED <<inputs, rois, dicom_series, img_data_rotated, turns,
                   present_segments, segment_descriptions,
                   img_data_rotated_transposed, pixel_array, raised>>

Next ==
    \/ LoadSeries
    \/ LoadSeriesRaises
    \/ RotateAndFirstPass
    \/ DescribeSegments
    \/ FillPixels
    \/ SegmentationRejects
    \/ SaveAs
    \/ SaveAsFails

Spec == Init /\ [][Next]_vars

\* -------------------------------------- the other writer and series metadata
\* Two slices met out of order that differ in description and number.  The
\* one of instance number 1 has both attributes, one of them or none.
Description_Abdomen == <<"A","b","d","o","m","e","n">>

Description_Thorax == <<"T","h","o","r","a","x">>

FirstSliceVariants ==
    LET full == InSeries(CT(<<"1">>), Description_Abdomen, 3)
    IN  {full, Without(full, "SeriesDescription"), Without(full, "SeriesNumber"),
         CT(<<"1">>)}

DescribedDirectories ==
    {<<InSeries(CT(<<"2">>), Description_Thorax, 7), first>> :
        first \in FirstSliceVariants}
    \cup {<<UnreadableFile>>}

DescribedVolumes == Arrays(MaxSegVoxels - 1, {0, 1})

\* create_dicom_segmentation is given the list that main got from
\* load_dicom_series, so it starts with dicom_series in place.
InitVariants ==
    /\ pc = "load"
    /\ \/ /\ func \in Writers
          /\ dcm_reference_file \in DescribedDirectories
          /\ img_data \in DescribedVolumes
          /\ selected_classes \in SeqsUpTo(ClassItems, 1)
          /\ dicom_series = <<>>
       \/ /\ func = "create_dicom_segmentation"
          /\ dcm_reference_file \in DescribedDirectories
          /\ load_dicom_series(dcm_reference_file).raised = "none"
          /\ img_data \in DescribedVolumes
          /\ selected_classes \in SeqsUpTo(ClassItems, 1)
          /\ dicom_series = load_dicom_series(dcm_reference_file).value
       \/ /\ func = "create_dicom_segmentation"
          /\ dcm_reference_file = SeriesDirectory
          /\ img_data \in SegVolumes
          /\ selected_classes \in ClassDicts
          /\ dicom_series = load_dicom_series(dcm_reference_file).value
       \/ /\ func = "save_mask_as_rtstruct"
          /\ dcm_reference_file = SeriesDirectory
          /\ img_data \in SegVolumes
          /\ selected_classes \in ClassDicts
          /\ dicom_series = <<>>
    /\ output_file = Absent
    /\ output_file_at_call = Absent
    /\ img_data_rotated = NoArray
    /\ turns = 0
    /\ present_segments = <<>>
    /\ segment_descriptions = <<>>
    /\ img_data_rotated_transposed = NoArray
    /\ pixel_array = NoPixels
    /\ rois = <<>>
    /\ raised = "none"

\* The loop of create_dicom_segmentation over class_dict
CreateDescriptions ==
    /\ func = "create_dicom_segmentation"
    /\ pc = "load"
    /\ segment_descriptions' =
         CreateSegmentDescriptions(selected_classes, img_data, Len(selected_classes))
    /\ pc' = "save"
    /\ UNCHANGED <<inputs, rois, output_file, dicom_series, img_data_rotated, turns,
                   present_segments, img_data_rotated_transposed, pixel_array,
                   raised>>

\* Segmentation(source_images=dicom_series, pixel_array=segmentation_array,
\* segment_descriptions=...) is library code outside the repository.  Given
\* an array whose extents disagree with the source images, or descriptions
\* that are not numbered 1, 2, ..., it may raise or build the dataset: both
\* outcomes are kept.  create_dicom_segmentation catches nothing.
CreateSegmentationRejects ==
    /\ func = "create_dicom_segmentation"
    /\ pc = "save"
    /\ \/ ExtentsDisagree(img_data.shape, dicom_series)
       \/ \E k \in 1..Len(segment_descriptions) :
             segment_descriptions[k].segment_number # k
       \/ Len(segment_descriptions) = 0
    /\ raised' = LibraryRejectsMessage
    /\ pc' = "raised"
    /\ UNCHANGED <<inputs, rois, output_file, dicom_series, img_data_rotated, turns,
                   present_segments, segment_descriptions,
                   img_data_rotated_transposed, pixel_array>>

\* The series description and number, the Segmentation object over the array
\* as it was given, and seg_dataset.save_as(output_path)
CreateSaveAs ==
    /\ func = "create_dicom_segmentation"
    /\ pc = "save"
    /\ output_file' =
         [exists |-> TRUE,
          SegmentSequence |-> segment_descriptions,
          NumberOfFrames |-> img_data.shape[1],
          Rows |-> img_data.shape[2],
          Columns |-> img_data.shape[3],
          PixelData |-> img_data.v,
          SeriesDescription |->
              WithSegSuffix(OriginalSeriesDescription(ref_image(dicom_series))),
          SeriesNumber |->
              OriginalSeriesNumber(ref_image(dicom_series)) + SeriesNumberOffset,
          InstanceNumber |-> 1]
    /\ pc' = "returned"
    /\ UNCHANGED <<inputs, rois, dicom_series, img_data_rotated, turns,
                   present_segments, segment_descriptions,
                   img_data_rotated_transposed, pixel_array, raised>>

\* save_mask_as_rtstruct up to the end of its loop: the RT Struct that
\* RTStructBuilder.create_new made of the reference directory, np.rot90, and
\* the ROIs of the classes
RotateAndAddRois ==
    /\ func = "save_mask_as_rtstruct"
    /\ pc = "load"
    /\ img_data_rotated' = rot90(img_data)
    /\ turns' = 1
    /\ rois' = AddRois(selected_classes, img_data_rotated', Len(selected_classes))
    /\ pc' = "save"
    /\ UNCHANGED <<inputs, output_file, dicom_series, present_segments,
                   segment_descriptions, img_data_rotated_transposed,
                   pixel_array, raised>>

\* rtstruct.save(str(output_path))
RtstructSave ==
    /\ func = "save_mask_as_rtstruct"
    /\ pc = "save"
    /\ output_file' = [exists |-> TRUE, StructureSetROISequence |-> rois]
    /\ pc' = "returned"
    /\ UNCHANGED <<inputs, rois, dicom_series, img_data_rotated, turns,
                   present_segments, segment_descriptions,
                   img_data_rotated_transposed, pixel_array, raised>>

NextVariants ==
    \/ LoadSeries
    \/ LoadSeriesRaises
    \/ RotateAndFirstPass
    \/ DescribeSegments
    \/ FillPixels
    \/ SegmentationRejects
    \/ SaveAs
    \/ SaveAsFails
    \/ CreateDescriptions
    \/ CreateSegmentationRejects
    \/ CreateSaveAs
    \/ RotateAndAddRois
    \/ RtstructSave

SpecVariants == InitVariants /\ [][NextVariants]_vars

\* ==================================================================== claims
Keys(d) == {d[i][1] : i \in 1..Len(d)}

LabelsIn(m) == {m.v[i] : i \in Indices(m.shape)}

AfterFirstPass == func \in Writers /\ pc \in {"second_pass", "pixels", "save", "returned"}

AfterSecondPass == func \in Writers /\ pc \in {"pixels", "save", "returned"}

\* C1: once a writer has numbered K >= 1 present segments, the segment
\* numbers read in order are 1, 2, ..., K: the set of numbers is 1..K, none
\* repeats, and there is one per present segment, whatever the labels are.
\* The file the writer saves carries the same numbers.
C1_SegmentNumbersContiguous ==
    AfterSecondPass =>
        LET K == Len(segment_descriptions)
            numbers == {segment_descriptions[k].segment_number : k \in 1..K}
        IN  /\ K >= 1
            /\ K = Len(present_segments)
            /\ numbers = 1..K
            /\ Cardinality(numbers) = K
            /\ \A k \in 1..K : segment_descriptions[k].segment_number = k
            /\ pc = "returned" =>
                 output_file.SegmentSequence = segment_descriptions

C1_Witness ==
    /\ pc = "returned"
    /\ Len(segment_descriptions) = 2
    /\ present_segments[1][1] = 5
    /\ present_segments[2][1] = 1
    /\ output_file.exists

\* C2: a class whose name starts with a lowercase letter is never among the
\* present segments, also when voxels of the volume carry its label.
C2_LowercaseNeverPresent ==
    \A i \in 1..Len(selected_classes) :
        selected_classes[i][2][1] \in Lowercase =>
            /\ selected_classes[i][1] \notin Keys(present_segments)
            /\ \A k \in 1..Len(segment_descriptions) :
                 segment_descriptions[k].segment_label # selected_classes[i][2]

C2_Witness ==
    /\ AfterFirstPass
    /\ Len(present_segments) >= 1
    /\ \E i \in 1..Len(selected_classes) :
         /\ selected_classes[i][2][1] \in Lowercase
         /\ selected_classes[i][1] # 0
         /\ selected_classes[i][1] \in LabelsIn(img_data)

\* C3: label 0 is never among the present segments, whatever name the dict
\* gives it and however many voxels are 0.
C3_BackgroundNeverPresent ==
    \A i \in 1..Len(selected_classes) :
        selected_classes[i][1] = 0 =>
            /\ 0 \notin Keys(present_segments)
            /\ pc = "returned" =>
                 Len(output_file.SegmentSequence) < Len(selected_classes)

C3_Witness ==
    /\ AfterFirstPass
    /\ Len(present_segments) >= 1
    /\ \E i \in 1..Len(selected_classes) :
         /\ selected_classes[i][1] = 0
         /\ selected_classes[i][2] = Name_Liver
    /\ \A i \in Indices(img_data.shape) \ {<<0, 0, 0>>} : img_data.v[i] = 0

\* A class of selected_classes that is to become a segment: not label 0, the
\* name not starting with a lowercase letter, one voxel or more of its label.
Qualifying(item) ==
    /\ item[1] # 0
    /\ item[2][1] \notin Lowercase
    /\ \E i \in Indices(img_data.shape) : img_data.v[i] = item[1]

C5_EmptySegmentationFails ==
    ( /\ func \in Writers
      /\ Len(SelectSeq(selected_classes, Qualifying)) = 0
      /\ load_dicom_series(dcm_reference_file).raised = "none" )
    => /\ pc \in {"load", "first_pass", "second_pass", "raised"}
       /\ pc = "raised" => raised = NoSegmentsMessage
       /\ img_data_rotated_transposed = NoArray
       /\ pixel_array = NoPixels
       /\ output_file = output_file_at_call

C5_Witness ==
    /\ func \in Writers
    /\ pc = "raised"
    /\ raised = NoSegmentsMessage
    /\ \E i \in 1..Len(selected_classes) :
         /\ selected_classes[i][1] = 5
         /\ selected_classes[i][1] \in LabelsIn(img_data)
    /\ output_file = Absent

\* C8: on a directory with no supported image file (no file at all, files
\* that do not read, files of other SOP classes) a writer stops at the load
\* with the loader's no-series error: nothing else is computed and the file at
\* the output path is as it was.
C8_NoSeriesSurfaces ==
    ( /\ func \in Writers
      /\ pc # "load"
      /\ \A p \in 1..Len(dcm_reference_file) :
           \/ ~dcm_reference_file[p].readable
           \/ "SOPClassUID" \notin dcm_reference_file[p].attrs
           \/ dcm_reference_file[p].SOPClassUID \notin
                {"CT Image Storage", "MR Image Storage",
                 "Positron Emission Tomography Image Storage",
                 "Nuclear Medicine Image Storage"} )
    => /\ pc = "raised"
       /\ raised = NoSeriesMessage
       /\ dicom_series = <<>>
       /\ present_segments = <<>>
       /\ pixel_array = NoPixels
       /\ output_file = output_file_at_call

C8_Witness ==
    /\ func = "save_mask_as_dicomseg_PYDICOM"
    /\ pc = "raised"
    /\ raised = NoSeriesMessage
    /\ Len(dcm_reference_file) = 2
    /\ ~dcm_reference_file[1].readable
    /\ dcm_reference_file[2].SOPClassUID = "RT Structure Set Storage"
    /\ output_file = Absent

\* The positions of the directory whose file is a supported image
QualifyingPaths ==
    {p \in 1..Len(dcm_reference_file) :
        /\ dcm_reference_file[p].readable
        /\ "SOPClassUID" \in dcm_reference_file[p].attrs
        /\ dcm_reference_file[p].SOPClassUID \in
             {"CT Image Storage", "MR Image Storage",
              "Positron Emission Tomography Image Storage",
              "Nuclear Medicine Image Storage"}}

Loaded == func = "load_dicom_series" /\ pc = "returned"

\* C6: the list load_dicom_series returns holds every qualifying file once
\* and nothing else, in ascending order of the integer instance number, and
\* two datasets with the same instance number stand in the order the
\* directory walk met them.  Instance numbers 3, 1, 2 come back as 1, 2, 3.
C6_SortedStablePermutation ==
    Loaded =>
        /\ {dicom_series[i].path : i \in 1..Len(dicom_series)} = QualifyingPaths
        /\ Len(dicom_series) = Cardinality(QualifyingPaths)
        /\ \A i \in 1..Len(dicom_series) :
             dicom_series[i].InstanceNumber =
                 dcm_reference_file[dicom_series[i].path].InstanceNumber
        /\ \A i, j \in 1..Len(dicom_series) :
             i < j =>
                LET a == IntOf(dicom_series[i].InstanceNumber)
                    b == IntOf(dicom_series[j].InstanceNumber)
                IN  /\ a <= b
                    /\ a = b => dicom_series[i].path < dicom_series[j].path
        /\ dcm_reference_file = <<CT(<<"3">>), CT(<<"1">>), CT(<<"2">>)>> =>
             [i \in 1..3 |-> dicom_series[i].InstanceNumber] =
                 <<<<"1">>, <<"2">>, <<"3">>>>

\* The scenario of instance numbers 3, 1, 2
C6_Scenario312 ==
    /\ Loaded
    /\ dcm_reference_file = <<CT(<<"3">>), CT(<<"1">>), CT(<<"2">>)>>
    /\ [i \in 1..3 |-> dicom_series[i].path] = <<2, 3, 1>>

\* Two slices with one instance number, after a slice with a larger one
C6_Witness ==
    /\ Loaded
    /\ dcm_reference_file =
         <<CT(<<"1","0">>), CT(<<"2">>), DicomFile("MR Image Storage", <<"2">>)>>
    /\ [i \in 1..3 |-> dicom_series[i].path] = <<2, 3, 1>>

\* C7: a file is kept exactly when it reads as a dataset that has a SOP class
\* among CT, MR, PET and Nuclear Medicine Image Storage.  A file that is not
\* kept never makes the load fail: when the load raises although a file
\* qualifies, it is over the instance number of a qualifying file.
C7_KeepsExactlySupported ==
    (func = "load_dicom_series" /\ pc # "load") =>
        /\ pc = "returned" =>
             /\ {dicom_series[i].path : i \in 1..Len(dicom_series)} = QualifyingPaths
             /\ \A i \in 1..Len(dicom_series) :
                  dicom_series[i].SOPClassUID =
                      dcm_reference_file[dicom_series[i].path].SOPClassUID
        /\ ( /\ QualifyingPaths # {}
             /\ \A p \in QualifyingPaths :
                  /\ "InstanceNumber" \in dcm_reference_file[p].attrs
                  /\ dcm_reference_file[p].InstanceNumber \in InstanceStrings )
           => pc = "returned"
        /\ (pc = "raised" /\ QualifyingPaths # {}) => raised # NoSeriesMessage

C7_Witness ==
    /\ Loaded
    /\ Len(dcm_reference_file) = 3
    /\ ~dcm_reference_file[1].readable
    /\ "SOPClassUID" \notin dcm_reference_file[2].attrs
    /\ dcm_reference_file[3].SOPClassUID = "Nuclear Medicine Image Storage"
    /\ Len(dicom_series) = 1
    /\ dicom_series[1].path = 3

\* C9: after one quarter turn, the transpose and the flip, a volume V of
\* extents (X, Y, Z) has become Z frames of Y rows and X columns with
\* F[f, r, c] = V[c, Y-1-r, Z-1-f]: frame f holds slice Z-1-f, frame 0 the
\* last slice, and every label has as many voxels in F as in V.
C9_FrameVolumeIsFixedBijection ==
    (func = "geometry" /\ pc = "frames") =>
        LET X == img_data.shape[1]
            Y == img_data.shape[2]
            Z == img_data.shape[3]
            F == img_data_rotated_transposed
        IN  /\ F.shape = <<Z, Y, X>>
            /\ DOMAIN F.v = (0..(Z - 1)) \X (0..(Y - 1)) \X (0..(X - 1))
            /\ \A f \in 0..(Z - 1), r \in 0..(Y - 1), c \in 0..(X - 1) :
                 F.v[<<f, r, c>>] = img_data.v[<<c, Y - 1 - r, Z - 1 - f>>]
            /\ \A l \in Labels :
                 Cardinality({i \in DOMAIN F.v : F.v[i] = l}) =
                     Cardinality({i \in DOMAIN img_data.v : img_data.v[i] = l})
            /\ \A f \in 0..(Z - 1), l \in Labels :
                 Cardinality({i \in DOMAIN F.v : i[1] = f /\ F.v[i] = l}) =
                     Cardinality({i \in DOMAIN img_data.v :
                                     i[3] = Z - 1 - f /\ img_data.v[i] = l})

C9_Witness ==
    /\ func = "geometry"
    /\ pc = "frames"
    /\ img_data.shape = <<1, 2, 3>>
    /\ img_data.v[<<0, 0, 0>>] = 1
    /\ img_data.v[<<0, 1, 2>>] = 5
    /\ \A i \in DOMAIN img_data.v :
         i \notin {<<0, 0, 0>>, <<0, 1, 2>>} => img_data.v[i] = 0
    /\ img_data_rotated_transposed.v[<<0, 0, 0>>] = 5
    /\ img_data_rotated_transposed.v[<<2, 1, 0>>] = 1

\* C10: four quarter turns of the first two axes give back the volume, its
\* extents and the label of every voxel, also when the two extents differ.
C10_FourQuarterTurnsAreIdentity ==
    (func = "geometry" /\ turns = 4) =>
        /\ img_data_rotated.shape = img_data.shape
        /\ \A i \in Indices(img_data.shape) : img_data_rotated.v[i] = img_data.v[i]
        /\ img_data_rotated = img_data

C10_Witness ==
    /\ func = "geometry"
    /\ turns = 4
    /\ img_data.shape = <<3, 2, 1>>
    /\ img_data.v[<<0, 0, 0>>] = 1
    /\ img_data.v[<<2, 1, 0>>] = 5
    /\ img_data.v[<<1, 0, 0>>] = 0
    /\ img_data_rotated = img_data

\* C11: the pixel array of save_mask_as_dicomseg has the extents of the
\* frames (Z frames of Y rows and X columns for a volume of extents X, Y, Z)
\* and one channel per present segment; channel i is 1 exactly at the voxels
\* whose label is the source label of segment i + 1 and 0 elsewhere, so no
\* voxel is 1 in two channels and a voxel of the background, of a class with
\* a lowercase name or of a label the dict does not hold is 0 in all of them.
C11_ChannelPerPresentSegment ==
    (func = "save_mask_as_dicomseg" /\ pixel_array # NoPixels) =>
        LET X == img_data.shape[1]
            Y == img_data.shape[2]
            Z == img_data.shape[3]
            Q == SelectSeq(selected_classes, Qualifying)
            K == Len(Q)
            P == pixel_array
            Voxels == (0..(Z - 1)) \X (0..(Y - 1)) \X (0..(X - 1))
            Label(i) == img_data.v[<<i[3], Y - 1 - i[2], Z - 1 - i[1]>>]
        IN  /\ P.shape = <<Z, Y, X, K>>
            /\ P.shape = img_data_rotated_transposed.shape \o <<K>>
            /\ Len(segment_descriptions) = K
            /\ DOMAIN P.v = Voxels \X (0..(K - 1))
            /\ \A i \in Voxels, ch \in 0..(K - 1) :
                 /\ segment_descriptions[ch + 1].segment_number = ch + 1
                 /\ segment_descriptions[ch + 1].segment_label = Q[ch + 1][2]
                 /\ P.v[<<i, ch>>] = IF Label(i) = Q[ch + 1][1] THEN 1 ELSE 0
            /\ \A i \in Voxels :
                 /\ Cardinality({ch \in 0..(K - 1) : P.v[<<i, ch>>] = 1}) <= 1
                 /\ ( \/ Label(i) = 0
                      \/ Label(i) \notin Keys(selected_classes)
                      \/ \E n \in 1..Len(selected_classes) :
                            /\ selected_classes[n][1] = Label(i)
                            /\ selected_classes[n][2][1] \in Lowercase )
                    => \A ch \in 0..(K - 1) : P.v[<<i, ch>>] = 0

\* Two channels over a volume that also holds background voxels
C11_Witness ==
    /\ func = "save_mask_as_dicomseg"
    /\ pc = "save"
    /\ img_data.shape = <<1, 1, 3>>
    /\ LabelsIn(img_data) = {0, 1, 5}
    /\ selected_classes = <<<<5, Name_Liver>>, <<1, Name_7th_rib>>>>
    /\ pixel_array.shape = <<3, 1, 1, 2>>

\* C17: the combined mask of save_mask_as_dicomseg_PYDICOM says what the
\* channels of save_mask_as_dicomseg say for the same volume and dict: a
\* pixel holds the segment number k of the present segment whose label the
\* voxel has and 0 when there is none, the pixels that hold k are the pixels
\* where channel k - 1 of binary_seg_array is 1, and there are as many frames
\* as the volume has slices.
C17_FlatAgreesWithChannels ==
    (func = "save_mask_as_dicomseg_PYDICOM" /\ pixel_array # NoPixels) =>
        LET X == img_data.shape[1]
            Y == img_data.shape[2]
            Z == img_data.shape[3]
            Q == SelectSeq(selected_classes, Qualifying)
            K == Len(Q)
            M == pixel_array
            rotated == rot90(img_data)
            B == BinarySegArray(rotated, ToFrames(rotated),
                     FirstPass(selected_classes, rotated, Len(selected_classes)))
            Voxels == (0..(Z - 1)) \X (0..(Y - 1)) \X (0..(X - 1))
            Label(i) == img_data.v[<<i[3], Y - 1 - i[2], Z - 1 - i[1]>>]
        IN  /\ M.shape = <<Z, Y, X, 1>>
            /\ DOMAIN M.v = Voxels \X {0}
            /\ B.shape = <<Z, Y, X, K>>
            /\ \A i \in Voxels :
                 /\ M.v[<<i, 0>>] \in 0..K
                 /\ \A k \in 1..K : M.v[<<i, 0>>] = k <=> Label(i) = Q[k][1]
                 /\ M.v[<<i, 0>>] = 0 <=> Label(i) \notin Keys(Q)
            /\ \A k \in 1..K :
                 /\ segment_descriptions[k].segment_number = k
                 /\ {i \in Voxels : M.v[<<i, 0>>] = k} =
                        {i \in Voxels : B.v[<<i, k - 1>>] = 1}
            /\ pc = "returned" =>
                 /\ output_file.NumberOfFrames = Z
                 /\ output_file.Rows = Y
                 /\ output_file.Columns = X
                 /\ output_file.PixelData = M.v

\* Segment 1 is label 5 and segment 2 label 1, beside a background voxel
C17_Witness ==
    /\ func = "save_mask_as_dicomseg_PYDICOM"
    /\ pc = "returned"
    /\ img_data.shape = <<1, 1, 3>>
    /\ img_data.v = (<<0, 0, 0>> :> 1) @@ (<<0, 0, 1>> :> 0) @@ (<<0, 0, 2>> :> 5)
    /\ selected_classes = <<<<5, Name_Liver>>, <<1, Name_7th_rib>>>>
    /\ pixel_array.v[<<<<0, 0, 0>>, 0>>] = 1
    /\ pixel_array.v[<<<<1, 0, 0>>, 0>>] = 0
    /\ pixel_array.v[<<<<2, 0, 0>>, 0>>] = 2
    /\ output_file.NumberOfFrames = 3

\* The positions of the qualifying files whose instance number is missing or
\* is not a string of decimal digits
BadSortKeyPaths ==
    {p \in QualifyingPaths :
        \/ "InstanceNumber" \notin dcm_reference_file[p].attrs
        \/ Len(dcm_reference_file[p].InstanceNumber) = 0
        \/ \E k \in 1..Len(dcm_reference_file[p].InstanceNumber) :
              dcm_reference_file[p].InstanceNumber[k] \notin
                  {"0", "1", "2", "3", "4", "5", "6", "7", "8", "9"}}

\* C18: the loader passes over a file in silence only for a failed read or
\* SOP class test.  When one dataset it kept has no instance number, or one
\* that is no integer, load_dicom_series raises over the sort key and returns
\* no series, whatever the other files are; a file it did not keep never
\* has this effect.
C18_BadSortKeyRaises ==
    (func = "load_dicom_series" /\ pc # "load") =>
        /\ BadSortKeyPaths # {} =>
             /\ pc = "raised"
             /\ raised \notin {"none", NoSeriesMessage}
             /\ dicom_series = <<>>
        /\ (pc = "raised" /\ raised # NoSeriesMessage) => BadSortKeyPaths # {}
        /\ (pc = "raised" /\ raised = NoSeriesMessage) => QualifyingPaths = {}

\* A slice without InstanceNumber between two slices that sort
C18_Witness ==
    /\ func = "load_dicom_series"
    /\ pc = "raised"
    /\ raised \notin {"none", NoSeriesMessage}
    /\ dcm_reference_file =
         <<CT(<<"2">>), Without(CT(<<"1">>), "InstanceNumber"), CT(<<"1">>)>>
    /\ dicom_series = <<>>

\* C12: when the extents of the label volume disagree with the reference
\* series (its slice count, or the rows and columns of its slices), both
\* writers fail with a shape-mismatch error before any write: the call does
\* not return and the file at the output path is as it was.
C12_ShapeMismatchFails ==
    ( /\ func \in Writers
      /\ dicom_series # <<>>
      /\ \/ img_data.shape[3] # Len(dicom_series)
         \/ img_data.shape[2] # dicom_series[1].Rows
         \/ img_data.shape[1] # dicom_series[1].Columns )
    => /\ pc # "returned"
       /\ output_file = output_file_at_call

\* C13: the write is atomic for the caller.  After a call of a writer that
\* ended in an error, a failed write included, the output path holds no
\* partial file: it is absent, or it holds what it held when the call began.
C13_WriteIsAtomic ==
    (func \in Writers /\ pc = "raised") =>
        /\ output_file # TruncatedFile
        /\ output_file = output_file_at_call

\* The slice the loader puts first: the supported image with the lowest
\* instance number, and of two with the same number the one met first.
FirstSlice ==
    LET p == CHOOSE q \in QualifyingPaths :
                \A o \in QualifyingPaths \ {q} :
                    \/ IntOf(dcm_reference_file[q].InstanceNumber) <
                           IntOf(dcm_reference_file[o].InstanceNumber)
                    \/ /\ IntOf(dcm_reference_file[q].InstanceNumber) =
                              IntOf(dcm_reference_file[o].InstanceNumber)
                       /\ q < o
    IN  dcm_reference_file[p]

\* C14: the series description of the output is the description of the first
\* slice of the sorted series followed by " Seg" (of the empty string when
\* the slice has none), its instance number is 1, and its series number is
\* the number of that slice in the two writers of dicom_io and that number
\* plus 1000 in create_dicom_segmentation, the number counting as 0 when the
\* slice has none.  Both writers of dicom_io so give one series the same
\* number.
C14_SeriesMetadataFromFirstSlice ==
    ( /\ func \in Writers \cup {"create_dicom_segmentation"}
      /\ pc = "returned" )
    => LET described == "SeriesDescription" \in FirstSlice.attrs
           numbered == "SeriesNumber" \in FirstSlice.attrs
           number == IF numbered THEN FirstSlice.SeriesNumber ELSE 0
       IN  /\ output_file.SeriesDescription =
                IF described
                THEN FirstSlice.SeriesDescription \o <<" ", "S", "e", "g">>
                ELSE <<" ", "S", "e", "g">>
           /\ output_file.InstanceNumber = 1
           /\ func \in Writers => output_file.SeriesNumber = number
           /\ func = "create_dicom_segmentation" =>
                output_file.SeriesNumber = number + 1000

\* The first slice has a number and no description, the other slice both
C14_Witness ==
    /\ func = "create_dicom_segmentation"
    /\ pc = "returned"
    /\ Len(dcm_reference_file) = 2
    /\ dcm_reference_file[1].SeriesNumber = 7
    /\ dcm_reference_file[2].SeriesNumber = 3
    /\ "SeriesDescription" \notin dcm_reference_file[2].attrs
    /\ output_file.SeriesNumber = 1003
    /\ output_file.SeriesDescription = <<" ", "S", "e", "g">>

\* C15: the ROIs save_mask_as_rtstruct adds are, by name and in order, the
\* present segments save_mask_as_dicomseg selects for the same volume and
\* dict of classes.
C15_RoisArePresentSegments ==
    (func = "save_mask_as_rtstruct" /\ pc \in {"save", "returned"}) =>
        LET present == FirstPass(selected_classes, rot90(img_data),
                                 Len(selected_classes))
        IN  /\ Len(rois) = Len(present)
            /\ \A k \in 1..Len(rois) : rois[k].name = present[k][2]

\* C16: the descriptions create_dicom_segmentation builds are numbered 1..K in
\* the order of class_dict, whatever the labels are: the k-th class of
\* class_dict that is not label 0 and has a voxel in the array gets segment
\* number k.
C16_CreateRenumbersContiguously ==
    (func = "create_dicom_segmentation" /\ pc \in {"save", "returned", "raised"}) =>
        LET InArray(item) ==
                /\ item[1] # 0
                /\ \E i \in Indices(img_data.shape) : img_data.v[i] = item[1]
            present == SelectSeq(selected_classes, InArray)
        IN  /\ Len(segment_descriptions) = Len(present)
            /\ \A k \in 1..Len(segment_descriptions) :
                 /\ segment_descriptions[k].segment_label = present[k][2]
                 /\ segment_descriptions[k].segment_number = k

====
